---- MODULE Spec2Model ----
(***************************************************************************)
(* A model of the implot-rs wrapper: the Plot builder and the plot element *)
(* builders (src/src/plot.rs, src/src/plot_elements.rs), the drop-checked  *)
(* PlotToken, and the free functions of src/src/lib.rs.  The native        *)
(* library is the environment: every sys::ImPlot_* call is recorded with   *)
(* the arguments the wrapper hands over, and the one native result the     *)
(* wrapper branches on (the return value of BeginPlot) is chosen freely.   *)
(***************************************************************************)
EXTENDS Integers, Sequences, FiniteSets, TLC

VARIABLES
    plot,       \* Option<Plot>: <<>> or <<p>>, the Plot value the program holds
    elem,       \* Option<plot element>: <<>> or <<e>>
    native,     \* the sys::ImPlot_* calls issued by the most recent wrapper call
    panic,      \* "none", or the cause of the panic that is unwinding the thread
    lastCall,   \* the most recent wrapper call and its arguments (observation)
    ncalls,     \* number of builder calls made so far
    borrowed,   \* the Rc<RefCell<ImPlotRange>> cells user code holds a borrow of
    lastLimit,  \* per axis: the last limit setter that named it (observation)
    tokens,     \* every PlotToken handed out so far, with what became of it
    counts,     \* how often BeginPlot returned true/false, EndPlot, end() ran
    build,      \* the activation record of a running Plot::build
    lastSet,    \* per axis: the flags and ticks last set for it; the plot flags
                \* last set (observation)
    begun,      \* the begin calls made on the Plot value as it is now: what
                \* BeginPlot returned and the native calls issued (observation)
    style       \* the native style stacks, and the style tokens handed out

vars == <<plot, elem, native, panic, lastCall, ncalls, borrowed, lastLimit,
          tokens, counts, build, lastSet, begun, style>>

-----------------------------------------------------------------------------
(* Bounds of the model *)

\* longest user-supplied string, in bytes
MaxLen == 2
\* style pushes per run
MaxPushes == 3
\* builder calls (constructors and setters) per run
MaxCalls == 2
\* Plot::begin / Plot::build calls per run
MaxBegins == 3

-----------------------------------------------------------------------------
(* Axes: src/src/lib.rs *)

NUMBER_OF_X_AXES == 3
NUMBER_OF_Y_AXES == 3

\* enum Axis, #[repr(u32)], with the values of ImAxis_
X1 == 0
X2 == 1
X3 == 2
Y1 == 3
Y2 == 4
Y3 == 5
Axis == {X1, X2, X3, Y1, Y2, Y3}

\* Option<T>: None and Some(v)
None == <<>>
Some(v) == <<v>>
IsSome(o) == o # <<>>
Unwrap(o) == o[1]

get_x_axis_index_any(axis) == Some(axis)
get_x_axis_index(axis) == IF axis < Y1 THEN Some(axis) ELSE None

get_y_axis_index_any(axis) == Some(axis - NUMBER_OF_X_AXES)
get_y_axis_index(axis) == IF axis > X3 THEN Some(axis - NUMBER_OF_X_AXES) ELSE None

get_x_axis_from_index(index) == IF index < NUMBER_OF_X_AXES THEN Some(index) ELSE None

get_y_axis_from_index(index) ==
    IF index < NUMBER_OF_Y_AXES THEN Some(index + NUMBER_OF_X_AXES) ELSE None

-----------------------------------------------------------------------------
(* Strings.  A &str is a sequence of bytes with no terminator; a CString   *)
(* owns the bytes followed by one NUL.  CString::new fails on a NUL byte   *)
(* anywhere in its argument.                                               *)

Bytes == {0, 65}
Strings == UNION {[1..n -> Bytes] : n \in 0..MaxLen}
HasNul(s) == \E i \in 1..Len(s) : s[i] = 0

\* CString::new(s): Err on an interior NUL, else the bytes plus the terminator
CStringNew(s) ==
    IF HasNul(s) THEN [ok |-> FALSE, bytes |-> <<>>]
    ELSE [ok |-> TRUE, bytes |-> s \o <<0>>]

\* CString::as_bytes(): the contents without the terminator
as_bytes(c) == SubSeq(c, 1, Len(c) - 1)

\* CString::as_ptr(): a pointer to the owned, NUL-terminated buffer.  A pointer
\* is modelled by the bytes of the allocation from the pointer on.
CStr_as_ptr(c) == [null |-> FALSE, bytes |-> c]
\* str::as_ptr(): a pointer to the bytes of the &str, which carry no terminator
str_as_ptr(s) == [null |-> FALSE, bytes |-> s]
NullPtr == [null |-> TRUE, bytes |-> <<>>]

\* what a wrapper call gives back: its return value (None when it panicked),
\* the native calls it issued up to there, and the panic cause or "none"
Result(ret, calls, cause) == [ret |-> ret, calls |-> calls, panic |-> cause]
Ok(ret) == Result(ret, <<>>, "none")
Panicked(calls, cause) == Result(None, calls, cause)

\* arr[index] = v on a fixed-size array: a bounds-checked store
Store(arr, index, v) ==
    IF index \in DOMAIN arr THEN [ok |-> TRUE, arr |-> [arr EXCEPT ![index] = v]]
    ELSE [ok |-> FALSE, arr |-> arr]

-----------------------------------------------------------------------------
(* Plot: src/src/plot.rs *)

\* bitflags PlotFlags: each constant is the native bit its definition names.
\* The native bits are distinct powers of two; which ones does not matter here.
ImPlotFlags_Equal == 1024
ImPlotFlags_Crosshairs == 2048
PlotFlags_EQUAL == ImPlotFlags_Equal
PlotFlags_CROSSHAIRS == ImPlotFlags_Equal

DEFAULT_PLOT_SIZE_X == 400
DEFAULT_PLOT_SIZE_Y == 400

XIdx == 0..(NUMBER_OF_X_AXES - 1)
YIdx == 0..(NUMBER_OF_Y_AXES - 1)

\* enum AxisLimitSpecification
Single(range, condition) == [kind |-> "Single", range |-> range, condition |-> condition]
Linked(rc) == [kind |-> "Linked", rc |-> rc]

\* Plot::new with a lossy conversion instead of the panic
Plot_new_lossy(title) ==
    Ok(Some([title |-> SelectSeq(title, LAMBDA b : b # 0) \o <<0>>,
             size |-> <<DEFAULT_PLOT_SIZE_X, DEFAULT_PLOT_SIZE_Y>>,
             x_label |-> <<0>>, y_label |-> <<0>>,
             x_limits |-> [k \in XIdx |-> None], y_limits |-> [k \in YIdx |-> None],
             x_tick_positions |-> [k \in XIdx |-> None],
             x_tick_labels |-> [k \in XIdx |-> None],
             show_x_default_ticks |-> [k \in XIdx |-> FALSE],
             y_tick_positions |-> [k \in YIdx |-> None],
             y_tick_labels |-> [k \in YIdx |-> None],
             show_y_default_ticks |-> [k \in YIdx |-> FALSE],
             legend_configuration |-> None,
             plot_flags |-> 0,
             x_flags |-> [k \in XIdx |-> 0], y_flags |-> [k \in YIdx |-> 0]]))

Plot_new(title) ==
    LET c == CStringNew(title) IN
    IF ~c.ok THEN Panicked(<<>>, "null_byte")
    ELSE Ok(Some([title |-> c.bytes,
                  size |-> <<DEFAULT_PLOT_SIZE_X, DEFAULT_PLOT_SIZE_Y>>,
                  x_label |-> CStringNew(<<>>).bytes,
                  y_label |-> CStringNew(<<>>).bytes,
                  x_limits |-> [k \in XIdx |-> None],
                  y_limits |-> [k \in YIdx |-> None],
                  x_tick_positions |-> [k \in XIdx |-> None],
                  x_tick_labels |-> [k \in XIdx |-> None],
                  show_x_default_ticks |-> [k \in XIdx |-> FALSE],
                  y_tick_positions |-> [k \in YIdx |-> None],
                  y_tick_labels |-> [k \in YIdx |-> None],
                  show_y_default_ticks |-> [k \in YIdx |-> FALSE],
                  legend_configuration |-> None,
                  plot_flags |-> 0,
                  x_flags |-> [k \in XIdx |-> 0],
                  y_flags |-> [k \in YIdx |-> 0]]))

Plot_size(self, size) == Ok(Some([self EXCEPT !.size = size]))

Plot_x_label(self, label) ==
    LET c == CStringNew(label) IN
    IF ~c.ok THEN Panicked(<<>>, "null_byte")
    ELSE Ok(Some([self EXCEPT !.x_label = c.bytes]))

Plot_y_label(self, label) ==
    LET c == CStringNew(label) IN
    IF ~c.ok THEN Panicked(<<>>, "null_byte")
    ELSE Ok(Some([self EXCEPT !.y_label = c.bytes]))

\* a setter that stores v in one per-axis array of the Plot
StoreField(self, field, index, v) ==
    LET s == Store(self[field], index, v) IN
    IF s.ok THEN Ok(Some([self EXCEPT ![field] = s.arr]))
    ELSE Panicked(<<>>, "index_out_of_bounds")

Plot_x_limits(self, limits, condition, axis) ==
    LET i == get_x_axis_index(axis) IN
    IF IsSome(i) THEN StoreField(self, "x_limits", Unwrap(i), Some(Single(limits, condition)))
    ELSE Ok(Some(self))

\* a linked setter that leaves a limit alone once one is set
Plot_linked_x_limits_first(self, limits, axis) ==
    LET i == get_x_axis_index(axis) IN
    IF IsSome(i) /\ ~IsSome(self.x_limits[Unwrap(i)])
    THEN StoreField(self, "x_limits", Unwrap(i), Some(Linked(limits)))
    ELSE Ok(Some(self))

Plot_linked_x_limits(self, limits, axis) ==
    LET i == get_x_axis_index(axis) IN
    IF IsSome(i) THEN StoreField(self, "x_limits", Unwrap(i), Some(Linked(limits)))
    ELSE Ok(Some(self))

Plot_y_limits(self, limits, condition, axis) ==
    LET i == get_y_axis_index(axis) IN
    IF IsSome(i) THEN StoreField(self, "y_limits", Unwrap(i), Some(Single(limits, condition)))
    ELSE Ok(Some(self))

\* the index is computed again inside the branch, as axis - Axis::Y1
Plot_linked_y_limits(self, limits, axis) ==
    LET i == get_y_axis_index(axis) IN
    IF IsSome(i) THEN StoreField(self, "y_limits", axis - Y1, Some(Linked(limits)))
    ELSE Ok(Some(self))

Plot_x_ticks(self, axis, ticks, show_default) ==
    LET i == get_x_axis_index(axis) IN
    IF ~IsSome(i) THEN Ok(Some(self))
    ELSE LET a == StoreField(self, "x_tick_positions", Unwrap(i), Some(ticks)) IN
         IF a.panic # "none" THEN a
         ELSE StoreField(Unwrap(a.ret), "show_x_default_ticks", Unwrap(i), show_default)

Plot_y_ticks(self, axis, ticks, show_default) ==
    LET i == get_y_axis_index(axis) IN
    IF ~IsSome(i) THEN Ok(Some(self))
    ELSE LET a == StoreField(self, "y_tick_positions", Unwrap(i), Some(ticks)) IN
         IF a.panic # "none" THEN a
         ELSE StoreField(Unwrap(a.ret), "show_y_default_ticks", Unwrap(i), show_default)

\* tick_labels.iter().map(|x| x.0).collect()
TickPositions(tick_labels) == [k \in 1..Len(tick_labels) |-> tick_labels[k][1]]

\* the label conversion with NUL bytes dropped instead of the panic
TickCStrings_lossy(tick_labels) ==
    [ok |-> TRUE,
     labels |-> [k \in 1..Len(tick_labels) |->
                    SelectSeq(tick_labels[k][2], LAMBDA b : b # 0) \o <<0>>]]

\* tick_labels.iter().map(|x| CString::new(x.1.as_str()).unwrap_or_else(panic)).collect()
TickCStrings(tick_labels) ==
    [ok |-> \A k \in 1..Len(tick_labels) : CStringNew(tick_labels[k][2]).ok,
     labels |-> [k \in 1..Len(tick_labels) |-> CStringNew(tick_labels[k][2]).bytes]]

Plot_x_ticks_with_labels(self, axis, tick_labels, show_default) ==
    LET i == get_x_axis_index(axis) IN
    IF ~IsSome(i) THEN Ok(Some(self))
    ELSE LET a == StoreField(self, "x_tick_positions", Unwrap(i),
                             Some(TickPositions(tick_labels)))
             c == TickCStrings(tick_labels)
         IN  IF a.panic # "none" THEN a
             ELSE IF ~c.ok THEN Panicked(<<>>, "null_byte")
             ELSE LET b == StoreField(Unwrap(a.ret), "x_tick_labels", Unwrap(i),
                                      Some(c.labels))
                  IN  IF b.panic # "none" THEN b
                      ELSE StoreField(Unwrap(b.ret), "show_x_default_ticks",
                                      Unwrap(i), show_default)

Plot_y_ticks_with_labels(self, axis, tick_labels, show_default) ==
    LET i == get_y_axis_index(axis) IN
    IF ~IsSome(i) THEN Ok(Some(self))
    ELSE LET a == StoreField(self, "y_tick_positions", Unwrap(i),
                             Some(TickPositions(tick_labels)))
             c == TickCStrings(tick_labels)
         IN  IF a.panic # "none" THEN a
             ELSE IF ~c.ok THEN Panicked(<<>>, "null_byte")
             ELSE LET b == StoreField(Unwrap(a.ret), "y_tick_labels", Unwrap(i),
                                      Some(c.labels))
                  IN  IF b.panic # "none" THEN b
                      ELSE StoreField(Unwrap(b.ret), "show_y_default_ticks",
                                      Unwrap(i), show_default)

Plot_with_plot_flags(self, flags) == Ok(Some([self EXCEPT !.plot_flags = flags]))

Plot_with_x_axis_flags(self, axis, flags) ==
    LET i == get_x_axis_index(axis) IN
    IF IsSome(i) THEN StoreField(self, "x_flags", Unwrap(i), flags)
    ELSE Ok(Some(self))

Plot_with_y_axis_flags(self, axis, flags) ==
    LET i == get_y_axis_index(axis) IN
    IF IsSome(i) THEN StoreField(self, "y_flags", Unwrap(i), flags)
    ELSE Ok(Some(self))

\* a setter that configures the legend in the native library right away
Plot_with_legend_location_eager(self, location, flags) ==
    Result(Some([self EXCEPT !.legend_configuration = Some(<<location, flags>>)]),
           <<[fn |-> "ImPlot_SetupLegend", location |-> location, flags |-> flags]>>,
           "none")

Plot_with_legend_location(self, location, flags) ==
    Ok(Some([self EXCEPT !.legend_configuration = Some(<<location, flags>>)]))

-----------------------------------------------------------------------------
(* Plot::begin and its helpers.  A native call is a record: fn names the   *)
(* sys:: function, the other fields are its arguments.                     *)

\* arr[0] \o ... \o arr[n-1]: what a for_each over an array issues, in order
RECURSIVE Flatten(_, _)
Flatten(arr, n) == IF n = 0 THEN <<>> ELSE Flatten(arr, n - 1) \o arr[n - 1]

\* a *mut f64 into the ImPlotRange of an Rc<RefCell<ImPlotRange>>
RangePtr(rc, field) == [null |-> FALSE, rc |-> rc, field |-> field]
NullRangePtr == [null |-> TRUE, rc |-> "", field |-> ""]

SetNextAxisLimits(axis, spec) ==
    [fn |-> "ImPlot_SetNextAxisLimits", axis |-> axis, v_min |-> spec.range.Min,
     v_max |-> spec.range.Max, cond |-> spec.condition]

SetNextAxisLinks(axis, p) ==
    [fn |-> "ImPlot_SetNextAxisLinks", axis |-> axis, link_min |-> p[1],
     link_max |-> p[2]]

IsSingle(limit_spec) == IsSome(limit_spec) /\ Unwrap(limit_spec).kind = "Single"
IsLinked(limit_spec) == IsSome(limit_spec) /\ Unwrap(limit_spec).kind = "Linked"

\* the direct limits, X axes first
DirectLimitCalls(self) ==
    Flatten([k \in XIdx |->
               IF IsSingle(self.x_limits[k])
               THEN <<SetNextAxisLimits(Unwrap(get_x_axis_from_index(k)),
                                        Unwrap(self.x_limits[k]))>>
               ELSE <<>>], NUMBER_OF_X_AXES)
    \o
    Flatten([k \in YIdx |->
               IF IsSingle(self.y_limits[k])
               THEN <<SetNextAxisLimits(Unwrap(get_y_axis_from_index(k)),
                                        Unwrap(self.y_limits[k]))>>
               ELSE <<>>], NUMBER_OF_Y_AXES)

\* the pointer pair of one axis: into the linked cell, or two null pointers
LimitPointers(limit_spec) ==
    IF IsLinked(limit_spec)
    THEN <<RangePtr(Unwrap(limit_spec).rc, "Min"), RangePtr(Unwrap(limit_spec).rc, "Max")>>
    ELSE <<NullRangePtr, NullRangePtr>>

\* RefCell::borrow_mut panics when the cell is borrowed already
BorrowMutFails(limits, held) ==
    \E k \in DOMAIN limits : IsLinked(limits[k]) /\ Unwrap(limits[k]).rc \in held

\* one SetNextAxisLinks per axis, unconditionally, X axes first
LinkCalls(self) ==
    Flatten([k \in XIdx |-> <<SetNextAxisLinks(Unwrap(get_x_axis_from_index(k)),
                                               LimitPointers(self.x_limits[k]))>>],
            NUMBER_OF_X_AXES)
    \o
    Flatten([k \in YIdx |-> <<SetNextAxisLinks(Unwrap(get_y_axis_from_index(k)),
                                               LimitPointers(self.y_limits[k]))>>],
            NUMBER_OF_Y_AXES)

\* the direct limits are issued before the cells are borrowed
maybe_set_axis_limits(self, held) ==
    IF BorrowMutFails(self.x_limits, held) \/ BorrowMutFails(self.y_limits, held)
    THEN Panicked(DirectLimitCalls(self), "already_borrowed")
    ELSE Result(None, DirectLimitCalls(self) \o LinkCalls(self), "none")

\* the labels argument: null, or a vector of pointers to the CStrings
LabelsPointer(labels) ==
    IF IsSome(labels)
    THEN [null |-> FALSE,
          ptrs |-> [j \in 1..Len(Unwrap(labels)) |-> CStr_as_ptr(Unwrap(labels)[j])]]
    ELSE [null |-> TRUE, ptrs |-> <<>>]

SetupAxisTicks(axis, positions, labels, show_default) ==
    [fn |-> "ImPlot_SetupAxisTicks_doublePtr", axis |-> axis,
     values |-> Unwrap(positions), n_ticks |-> Len(Unwrap(positions)),
     labels |-> LabelsPointer(labels), keep_default |-> show_default]

HasTicks(positions) == IsSome(positions) /\ Unwrap(positions) # <<>>

maybe_set_tick_labels(self) ==
    Flatten([k \in XIdx |->
               IF HasTicks(self.x_tick_positions[k])
               THEN <<SetupAxisTicks(Unwrap(get_x_axis_from_index(k)),
                                     self.x_tick_positions[k], self.x_tick_labels[k],
                                     self.show_x_default_ticks[k])>>
               ELSE <<>>], NUMBER_OF_X_AXES)
    \o
    Flatten([k \in YIdx |->
               IF HasTicks(self.y_tick_positions[k])
               THEN <<SetupAxisTicks(Unwrap(get_y_axis_from_index(k)),
                                     self.y_tick_positions[k], self.y_tick_labels[k],
                                     self.show_y_default_ticks[k])>>
               ELSE <<>>], NUMBER_OF_Y_AXES)

BeginPlot(self) ==
    [fn |-> "ImPlot_BeginPlot", title_id |-> CStr_as_ptr(self.title),
     size |-> self.size, flags |-> self.plot_flags]

SetupAxis(axis, label, flags) ==
    [fn |-> "ImPlot_SetupAxis", axis |-> axis, label |-> CStr_as_ptr(label),
     flags |-> flags]

SetupLegend(legend_config) ==
    [fn |-> "ImPlot_SetupLegend", location |-> legend_config[1],
     flags |-> legend_config[2]]

\* struct PlotUi and PlotToken; a reference is never null
NullContext == "null"
TheContext == "context"
PlotUi == [context |-> TheContext]
PlotToken(context, plot_title) == [context |-> context, plot_title |-> plot_title]

\* begin takes &self: the Plot after the call.  The variant forgets the tick
\* settings once they were handed over.
Plot_after_begin_forgetful(self) ==
    [self EXCEPT !.x_tick_positions = [k \in XIdx |-> None],
                 !.y_tick_positions = [k \in YIdx |-> None]]

Plot_after_begin(self) == self

\* should_render is what the native BeginPlot returns
Plot_begin(self, plot_ui, should_render, held) ==
    LET l == maybe_set_axis_limits(self, held)
        before == l.calls \o maybe_set_tick_labels(self) \o <<BeginPlot(self)>>
    IN  IF l.panic # "none" THEN l
        ELSE IF should_render
        THEN Result(Some(PlotToken(plot_ui.context, self.title)),
                    before \o <<SetupAxis(X1, self.x_label, self.x_flags[0]),
                                SetupAxis(Y1, self.y_label, self.y_flags[0])>>
                           \o (IF IsSome(self.legend_configuration)
                               THEN <<SetupLegend(Unwrap(self.legend_configuration))>>
                               ELSE <<>>),
                    "none")
        ELSE Result(None, before, "none")

-----------------------------------------------------------------------------
(* PlotToken: src/src/plot.rs *)

\* PlotToken::end before the implicit drop of self: the context is nulled,
\* then EndPlot is called
EndPlot == [fn |-> "ImPlot_EndPlot"]

PlotToken_end_keep(self) == Result(Some(self), <<EndPlot>>, "none")
PlotToken_end(self) ==
    Result(Some([self EXCEPT !.context = NullContext]), <<EndPlot>>, "none")

\* impl Drop for PlotToken: TRUE when the drop panics.  panicking is
\* std::thread::panicking()
PlotToken_drop_silent(self, panicking) == FALSE
PlotToken_drop(self, panicking) == self.context # NullContext /\ ~panicking

\* Plot::build runs the closure exactly when begin returned a token
build_calls_closure_always(token) == TRUE
build_calls_closure(token) == IsSome(token)

-----------------------------------------------------------------------------
(* Plot elements: src/src/plot_elements.rs *)

\* BarsFlags::HORIZONTAL, ImPlotBarsFlags_Horizontal = 1 << 10
BarsFlags_HORIZONTAL == 1024
\* flags.contains(f) for a one-bit f
contains(flags, f) == (flags \div f) % 2 = 1
\* std::mem::size_of::<f64>()
SizeOfF64 == 8

MinLen(x, y) == IF Len(x) < Len(y) THEN Len(x) ELSE Len(y)

\* a constructor that drops NUL bytes from the label instead of panicking
element_new_lossy(kind, label, flags) ==
    Ok(Some([kind |-> kind, label |-> SelectSeq(label, LAMBDA b : b # 0) \o <<0>>,
             flags |-> flags]))

\* the part the seven new_with_flags share: the label conversion and the flags
element_new(kind, label, flags) ==
    LET c == CStringNew(label) IN
    IF ~c.ok THEN Panicked(<<>>, "null_byte")
    ELSE Ok(Some([kind |-> kind, label |-> c.bytes, flags |-> flags]))

\* adds struct fields to a freshly built element (or passes the panic on)
WithFields(r, fields) ==
    IF r.panic # "none" THEN r
    ELSE Ok(Some([f \in DOMAIN Unwrap(r.ret) \cup DOMAIN fields |->
                    IF f \in DOMAIN fields THEN fields[f] ELSE Unwrap(r.ret)[f]]))

PlotLine_new_with_flags(label, flags) == element_new("PlotLine", label, flags)
PlotLine_new(label) == PlotLine_new_with_flags(label, 0)

PlotStairs_new_with_flags(label, flags) == element_new("PlotStairs", label, flags)
PlotStairs_new(label) == PlotStairs_new_with_flags(label, 0)

PlotScatter_new_with_flags(label, flags) == element_new("PlotScatter", label, flags)
PlotScatter_new(label) == PlotScatter_new_with_flags(label, 0)

\* bar_width in hundredths: 0.67
PlotBars_new_with_flags(label, flags) ==
    WithFields(element_new("PlotBars", label, flags), [bar_width |-> 67])
PlotBars_new(label) == PlotBars_new_with_flags(label, 0)

PlotText_new_with_flags(label, flags) ==
    WithFields(element_new("PlotText", label, flags),
               [pixel_offset_x |-> 0, pixel_offset_y |-> 0])
PlotText_new(label) == PlotText_new_with_flags(label, 0)

\* "%.1f"
DefaultLabelFormat == <<37, 46, 49, 102>>

PlotHeatmap_new_with_flags(label, flags) ==
    WithFields(element_new("PlotHeatmap", label, flags),
               [scale_range |-> None,
                label_format |-> Some(CStringNew(DefaultLabelFormat).bytes),
                drawarea_lower_left |-> <<0, 0>>,
                drawarea_upper_right |-> <<1, 1>>])
PlotHeatmap_new(label) == PlotHeatmap_new_with_flags(label, 0)

PlotStems_new_with_flags(label, flags) ==
    WithFields(element_new("PlotStems", label, flags), [reference_y |-> 0])
PlotStems_new(label) == PlotStems_new_with_flags(label, 0)

ElementKinds ==
    {"PlotLine", "PlotStairs", "PlotScatter", "PlotBars", "PlotText", "PlotHeatmap",
     "PlotStems"}

\* Self::new_with_flags of the struct named kind
new_with_flags(kind, label, flags) ==
    CASE kind = "PlotLine" -> PlotLine_new_with_flags(label, flags)
      [] kind = "PlotStairs" -> PlotStairs_new_with_flags(label, flags)
      [] kind = "PlotScatter" -> PlotScatter_new_with_flags(label, flags)
      [] kind = "PlotBars" -> PlotBars_new_with_flags(label, flags)
      [] kind = "PlotText" -> PlotText_new_with_flags(label, flags)
      [] kind = "PlotHeatmap" -> PlotHeatmap_new_with_flags(label, flags)
      [] kind = "PlotStems" -> PlotStems_new_with_flags(label, flags)

\* the flags(..) setter of every element but PlotStems
element_flags(self, flags) == Ok(Some([self EXCEPT !.flags = flags]))

PlotBars_with_bar_width(self, bar_width) == Ok(Some([self EXCEPT !.bar_width = bar_width]))

PlotText_with_pixel_offset(self, offset_x, offset_y) ==
    Ok(Some([self EXCEPT !.pixel_offset_x = offset_x, !.pixel_offset_y = offset_y]))

PlotHeatmap_with_scale(self, scale_min, scale_max) ==
    Ok(Some([self EXCEPT !.scale_range = Some(<<scale_min, scale_max>>)]))

\* label_format is an Option<&str>
PlotHeatmap_with_label_format(self, label_format) ==
    IF ~IsSome(label_format) THEN Ok(Some([self EXCEPT !.label_format = None]))
    ELSE LET c == CStringNew(Unwrap(label_format)) IN
         IF ~c.ok THEN Panicked(<<>>, "null_byte")
         ELSE Ok(Some([self EXCEPT !.label_format = Some(c.bytes)]))

PlotHeatmap_with_drawing_area(self, lower_left, upper_right) ==
    Ok(Some([self EXCEPT !.drawarea_lower_left = lower_left,
                         !.drawarea_upper_right = upper_right]))

PlotStems_with_reference_y(self, reference_y) ==
    Ok(Some([self EXCEPT !.reference_y = reference_y]))

\* the call the four x/y plots share; none is made without a data point
XYCall(fn, self, x, y) ==
    IF MinLen(x, y) = 0 THEN Ok(None)
    ELSE Result(None,
                <<[fn |-> fn, label_id |-> CStr_as_ptr(self.label), xs |-> x, ys |-> y,
                   count |-> MinLen(x, y), flags |-> self.flags, offset |-> 0,
                   stride |-> SizeOfF64]>>,
                "none")

PlotLine_plot(self, x, y) == XYCall("ImPlot_PlotLine_doublePtrdoublePtr", self, x, y)
PlotStairs_plot(self, x, y) == XYCall("ImPlot_PlotStairs_doublePtrdoublePtr", self, x, y)
PlotScatter_plot(self, x, y) == XYCall("ImPlot_PlotScatter_doublePtrdoublePtr", self, x, y)

PlotBars_plot(self, axis_positions, bar_values) ==
    LET horizontal == contains(self.flags, BarsFlags_HORIZONTAL)
        x == IF horizontal THEN bar_values ELSE axis_positions
        y == IF horizontal THEN axis_positions ELSE bar_values
    IN  IF MinLen(axis_positions, bar_values) = 0 THEN Ok(None)
        ELSE Result(None,
                    <<[fn |-> "ImPlot_PlotBars_doublePtrdoublePtr",
                       label_id |-> CStr_as_ptr(self.label), xs |-> x, ys |-> y,
                       count |-> MinLen(axis_positions, bar_values),
                       bar_size |-> self.bar_width, flags |-> self.flags,
                       offset |-> 0, stride |-> SizeOfF64]>>,
                    "none")

PlotStems_plot(self, axis_positions, stem_values) ==
    IF MinLen(axis_positions, stem_values) = 0 THEN Ok(None)
    ELSE Result(None,
                <<[fn |-> "ImPlot_PlotStems_doublePtrdoublePtr",
                   label_id |-> CStr_as_ptr(self.label), xs |-> axis_positions,
                   ys |-> stem_values, count |-> MinLen(axis_positions, stem_values),
                   ref |-> self.reference_y, flags |-> self.flags, offset |-> 0,
                   stride |-> SizeOfF64]>>,
                "none")

PlotText_plot(self, x, y) ==
    IF as_bytes(self.label) = <<>> THEN Ok(None)
    ELSE Result(None,
                <<[fn |-> "ImPlot_PlotText", text |-> CStr_as_ptr(self.label),
                   x |-> x, y |-> y,
                   pix_offset |-> <<self.pixel_offset_x, self.pixel_offset_y>>,
                   flags |-> self.flags]>>,
                "none")

\* the fold over values that finds the smallest and the largest
RECURSIVE MinSeen(_, _)
MinSeen(values, n) ==
    IF n = 1 THEN values[1]
    ELSE IF values[n] < MinSeen(values, n - 1) THEN values[n] ELSE MinSeen(values, n - 1)
RECURSIVE MaxSeen(_, _)
MaxSeen(values, n) ==
    IF n = 1 THEN values[1]
    ELSE IF values[n] > MaxSeen(values, n - 1) THEN values[n] ELSE MaxSeen(values, n - 1)

\* values[0] is read first when no scale was given: a bounds-checked index
PlotHeatmap_plot(self, values, number_of_rows, number_of_cols) ==
    IF ~IsSome(self.scale_range) /\ values = <<>>
    THEN Panicked(<<>>, "index_out_of_bounds")
    ELSE LET scale_range ==
                 IF IsSome(self.scale_range) THEN Unwrap(self.scale_range)
                 ELSE <<MinSeen(values, Len(values)), MaxSeen(values, Len(values))>>
         IN  Result(None,
                    <<[fn |-> "ImPlot_PlotHeatmap_doublePtr",
                       label_id |-> CStr_as_ptr(self.label), values |-> values,
                       rows |-> number_of_rows, cols |-> number_of_cols,
                       scale_min |-> scale_range[1], scale_max |-> scale_range[2],
                       label_fmt |-> IF IsSome(self.label_format)
                                     THEN CStr_as_ptr(Unwrap(self.label_format))
                                     ELSE NullPtr,
                       bounds_min |-> self.drawarea_lower_left,
                       bounds_max |-> self.drawarea_upper_right,
                       flags |-> self.flags]>>,
                    "none")

-----------------------------------------------------------------------------
(* Free functions: src/src/lib.rs *)

IMPLOT_AUTO == -1
axis_option_to_i32(choice) == IF IsSome(choice) THEN Unwrap(choice) ELSE IMPLOT_AUTO

is_plot_axis_hovered(axis_choice) ==
    Result(None, <<[fn |-> "ImPlot_IsAxisHovered", axis |-> axis_option_to_i32(axis_choice)]>>,
           "none")

\* the pointer handed over is that of the &str itself
is_legend_entry_hovered(legend_entry) ==
    Result(None,
           <<[fn |-> "ImPlot_IsLegendEntryHovered", label_id |-> str_as_ptr(legend_entry)]>>,
           "none")

\* set_colormap_from_preset, set_colormap_from_vec: the bodies hold no call
set_colormap_from_preset(preset, samples) == Ok(None)
set_colormap_from_vec(colors) == Ok(None)

\* struct StyleColorToken, struct StyleVarToken
StyleColorToken(was_popped) == [was_popped |-> was_popped]
StyleVarToken(was_popped) == [was_popped |-> was_popped]

push_style_color(element, red, green, blue, alpha) ==
    Result(Some(StyleColorToken(FALSE)),
           <<[fn |-> "ImPlot_PushStyleColor_Vec4", idx |-> element,
              val |-> <<red, green, blue, alpha>>]>>,
           "none")

push_style_var_f32(element, value) ==
    Result(Some(StyleVarToken(FALSE)),
           <<[fn |-> "ImPlot_PushStyleVar_Float", idx |-> element, val |-> value]>>,
           "none")

push_style_var_i32(element, value) ==
    Result(Some(StyleVarToken(FALSE)),
           <<[fn |-> "ImPlot_PushStyleVar_Int", idx |-> element, val |-> value]>>,
           "none")

push_style_var_imvec2(element, value) ==
    Result(Some(StyleVarToken(FALSE)),
           <<[fn |-> "ImPlot_PushStyleVar_Vec2", idx |-> element, val |-> value]>>,
           "none")

StyleColorToken_pop(self) ==
    IF self.was_popped THEN Panicked(<<>>, "popped_twice")
    ELSE Result(Some([self EXCEPT !.was_popped = TRUE]),
                <<[fn |-> "ImPlot_PopStyleColor", count |-> 1]>>, "none")

StyleVarToken_pop(self) ==
    IF self.was_popped THEN Panicked(<<>>, "popped_twice")
    ELSE Result(Some([self EXCEPT !.was_popped = TRUE]),
                <<[fn |-> "ImPlot_PopStyleVar", count |-> 1]>>, "none")

\* The native style stacks, as the calls above leave them: a push puts an
\* entry on top of its stack, a pop of count takes the top count entries off.
\* id names the push that added the entry.
PushFns ==
    {"ImPlot_PushStyleColor_Vec4", "ImPlot_PushStyleVar_Float", "ImPlot_PushStyleVar_Int",
     "ImPlot_PushStyleVar_Vec2"}

Pushed(stack, call, id) == Append(stack, [id |-> id, idx |-> call.idx, val |-> call.val])

Popped(stack, count) ==
    SubSeq(stack, 1, IF Len(stack) > count THEN Len(stack) - count ELSE 0)

NativeStack(stack, call, id, push_fns, pop_fn) ==
    IF call.fn \in push_fns THEN Pushed(stack, call, id)
    ELSE IF call.fn = pop_fn THEN Popped(stack, call.count)
    ELSE stack

-----------------------------------------------------------------------------
(* The program: which wrapper calls user code makes, and with what.        *)

XAxes == {X1, X2, X3}
YAxes == {Y1, Y2, Y3}

\* the strings of at most one byte
ShortStrings == {s \in Strings : Len(s) <= 1}

\* ImPlotRange values and imgui::Condition values given to the limit setters
Ranges == {[Min |-> 0, Max |-> 1], [Min |-> -5, Max |-> 5]}
Conditions == {"Always", "Once"}
\* the Rc<RefCell<ImPlotRange>> cells of the program
Rcs == {"rcA", "rcB"}
\* tick positions given to x_ticks / y_ticks
TickLists == {<<>>, <<10, 20>>}
\* (position, label) lists given to the *_ticks_with_labels setters
LabelledTicks ==
    {<<>>, << <<10, <<65>>>> >>, << <<10, <<65>>>>, <<20, <<65, 0, 65>>>> >>}
\* flag words given to the flag setters
FlagWords == {0, 1}
\* data slices given to the plot() methods
Slices == {<<>>, <<3>>, <<3, 1>>}

Call(op, axis, strs) == [op |-> op, axis |-> axis, strs |-> strs]

\* nothing set yet
NothingSet ==
    [flags |-> [a \in Axis |-> None], ticks |-> [a \in Axis |-> None],
     plot_flags |-> None]

\* empty native style stacks, no token handed out, no colormap asked for
NoStyle == [colors |-> <<>>, vars |-> <<>>, tokens |-> <<>>, colormap |-> None]

NoBuild ==
    [pc |-> "idle", token |-> None, should_render |-> None, closure_calls |-> 0,
     closure_returns |-> 0, end_plots |-> 0]

Init ==
    /\ plot = None
    /\ elem = None
    /\ native = <<>>
    /\ panic = "none"
    /\ lastCall = Call("start", None, <<>>)
    /\ ncalls = 0
    /\ borrowed = {}
    /\ lastLimit = [a \in Axis |-> None]
    /\ tokens = <<>>
    /\ counts = [begin_true |-> 0, begin_false |-> 0, end_plot |-> 0, end_calls |-> 0]
    /\ build = NoBuild
    /\ lastSet = NothingSet
    /\ begun = <<>>
    /\ style = NoStyle

\* a call on the Plot value: self is moved in and the result moved out
PlotCall(op, axis, strs, r) ==
    /\ plot' = r.ret
    /\ native' = r.calls
    /\ panic' = r.panic
    /\ lastCall' = Call(op, axis, strs)
    /\ ncalls' = ncalls + 1
    /\ begun' = IF r.ret = plot THEN begun ELSE <<>>

CanBuild == panic = "none" /\ ncalls < MaxCalls
CanSet == CanBuild /\ IsSome(plot)
Self == Unwrap(plot)

\* the observation lastSet: the X setters count for the X axes, the Y setters
\* for the Y axes
ObserveFlags(axis, family, flags) ==
    IF axis \in family THEN [lastSet EXCEPT !.flags[axis] = Some(flags)]
    ELSE lastSet

ObserveTicks(axis, family, positions, show_default, labelled) ==
    IF axis \in family
    THEN [lastSet EXCEPT !.ticks[axis] =
             Some([positions |-> positions, show_default |-> show_default,
                   labelled |-> labelled])]
    ELSE lastSet

\* what is set on the Plot the call r gives back; nothing when it gave none
Seen(r, set) == IF IsSome(r.ret) THEN set ELSE NothingSet

NewPlot(titles) ==
    /\ CanBuild /\ plot = None
    /\ \E title \in titles : PlotCall("Plot::new", None, <<title>>, Plot_new(title))
    /\ UNCHANGED <<elem, borrowed, lastLimit, tokens, counts, build,
                   lastSet, style>>

SetSize ==
    /\ CanSet
    /\ PlotCall("size", None, <<>>, Plot_size(Self, <<300, 200>>))
    /\ UNCHANGED <<elem, borrowed, lastLimit, tokens, counts, build,
                   lastSet, style>>

SetXLabel(labels) ==
    /\ CanSet
    /\ \E label \in labels :
          LET r == Plot_x_label(Self, label) IN
          /\ PlotCall("x_label", None, <<label>>, r)
          /\ lastSet' = Seen(r, lastSet)
    /\ UNCHANGED <<elem, borrowed, lastLimit, tokens, counts, build, style>>

SetYLabel(labels) ==
    /\ CanSet
    /\ \E label \in labels :
          LET r == Plot_y_label(Self, label) IN
          /\ PlotCall("y_label", None, <<label>>, r)
          /\ lastSet' = Seen(r, lastSet)
    /\ UNCHANGED <<elem, borrowed, lastLimit, tokens, counts, build, style>>

\* the observation lastLimit: the X setters count for the X axes, the Y
\* setters for the Y axes
Observe(axis, family, spec) ==
    lastLimit' = IF axis \in family THEN [lastLimit EXCEPT ![axis] = Some(spec)]
                 ELSE lastLimit

SetXLimits(ranges, conditions) ==
    /\ CanSet
    /\ \E axis \in Axis, limits \in ranges, condition \in conditions :
          /\ PlotCall("x_limits", Some(axis), <<>>,
                      Plot_x_limits(Self, limits, condition, axis))
          /\ Observe(axis, XAxes, Single(limits, condition))
    /\ UNCHANGED <<elem, borrowed, tokens, counts, build,
                   lastSet, style>>

SetYLimits(ranges, conditions) ==
    /\ CanSet
    /\ \E axis \in Axis, limits \in ranges, condition \in conditions :
          /\ PlotCall("y_limits", Some(axis), <<>>,
                      Plot_y_limits(Self, limits, condition, axis))
          /\ Observe(axis, YAxes, Single(limits, condition))
    /\ UNCHANGED <<elem, borrowed, tokens, counts, build,
                   lastSet, style>>

SetLinkedXLimits(rcs) ==
    /\ CanSet
    /\ \E axis \in Axis, limits \in rcs :
          /\ PlotCall("linked_x_limits", Some(axis), <<>>,
                      Plot_linked_x_limits(Self, limits, axis))
          /\ Observe(axis, XAxes, Linked(limits))
    /\ UNCHANGED <<elem, borrowed, tokens, counts, build,
                   lastSet, style>>

SetLinkedYLimits(rcs) ==
    /\ CanSet
    /\ \E axis \in Axis, limits \in rcs :
          /\ PlotCall("linked_y_limits", Some(axis), <<>>,
                      Plot_linked_y_limits(Self, limits, axis))
          /\ Observe(axis, YAxes, Linked(limits))
    /\ UNCHANGED <<elem, borrowed, tokens, counts, build,
                   lastSet, style>>

SetXTicks ==
    /\ CanSet
    /\ \E axis \in Axis, ticks \in TickLists, show_default \in BOOLEAN :
          /\ PlotCall("x_ticks", Some(axis), <<>>,
                      Plot_x_ticks(Self, axis, ticks, show_default))
          /\ lastSet' = ObserveTicks(axis, XAxes, ticks, show_default, FALSE)
    /\ UNCHANGED <<elem, borrowed, lastLimit, tokens, counts, build, style>>

SetYTicks ==
    /\ CanSet
    /\ \E axis \in Axis, ticks \in TickLists, show_default \in BOOLEAN :
          /\ PlotCall("y_ticks", Some(axis), <<>>,
                      Plot_y_ticks(Self, axis, ticks, show_default))
          /\ lastSet' = ObserveTicks(axis, YAxes, ticks, show_default, FALSE)
    /\ UNCHANGED <<elem, borrowed, lastLimit, tokens, counts, build, style>>

\* the label strings of a (position, label) list
LabelsOf(tick_labels) == [k \in 1..Len(tick_labels) |-> tick_labels[k][2]]

SetXTicksWithLabels ==
    /\ CanSet
    /\ \E axis \in Axis, tick_labels \in LabelledTicks :
          LET r == Plot_x_ticks_with_labels(Self, axis, tick_labels, TRUE) IN
          /\ PlotCall("x_ticks_with_labels", Some(axis), LabelsOf(tick_labels), r)
          /\ lastSet' = Seen(r, ObserveTicks(axis, XAxes, TickPositions(tick_labels),
                                             TRUE, TRUE))
    /\ UNCHANGED <<elem, borrowed, lastLimit, tokens, counts, build, style>>

SetYTicksWithLabels ==
    /\ CanSet
    /\ \E axis \in Axis, tick_labels \in LabelledTicks :
          LET r == Plot_y_ticks_with_labels(Self, axis, tick_labels, TRUE) IN
          /\ PlotCall("y_ticks_with_labels", Some(axis), LabelsOf(tick_labels), r)
          /\ lastSet' = Seen(r, ObserveTicks(axis, YAxes, TickPositions(tick_labels),
                                             TRUE, TRUE))
    /\ UNCHANGED <<elem, borrowed, lastLimit, tokens, counts, build, style>>

SetPlotFlags(words) ==
    /\ CanSet
    /\ \E flags \in words :
          /\ PlotCall("with_plot_flags", None, <<>>, Plot_with_plot_flags(Self, flags))
          /\ lastSet' = [lastSet EXCEPT !.plot_flags = Some(flags)]
    /\ UNCHANGED <<elem, borrowed, lastLimit, tokens, counts, build, style>>

SetXAxisFlags(words) ==
    /\ CanSet
    /\ \E axis \in Axis, flags \in words :
          /\ PlotCall("with_x_axis_flags", Some(axis), <<>>,
                      Plot_with_x_axis_flags(Self, axis, flags))
          /\ lastSet' = ObserveFlags(axis, XAxes, flags)
    /\ UNCHANGED <<elem, borrowed, lastLimit, tokens, counts, build, style>>

SetYAxisFlags(words) ==
    /\ CanSet
    /\ \E axis \in Axis, flags \in words :
          /\ PlotCall("with_y_axis_flags", Some(axis), <<>>,
                      Plot_with_y_axis_flags(Self, axis, flags))
          /\ lastSet' = ObserveFlags(axis, YAxes, flags)
    /\ UNCHANGED <<elem, borrowed, lastLimit, tokens, counts, build, style>>

SetLegendLocation ==
    /\ CanSet
    /\ PlotCall("with_legend_location", None, <<>>,
                Plot_with_legend_location(Self, "NorthEast", 0))
    /\ UNCHANGED <<elem, borrowed, lastLimit, tokens, counts, build,
                   lastSet, style>>

\* a call on the plot element: self is moved in and the result moved out
ElemCall(op, strs, r) ==
    /\ elem' = r.ret
    /\ native' = r.calls
    /\ panic' = r.panic
    /\ lastCall' = Call(op, None, strs)
    /\ ncalls' = ncalls + 1

CanSetElem(kinds) == CanBuild /\ IsSome(elem) /\ Unwrap(elem).kind \in kinds
Elem == Unwrap(elem)

NewElement(labels) ==
    /\ CanBuild /\ elem = None
    /\ \E kind \in ElementKinds, label \in labels :
          ElemCall("new_with_flags", <<label>>, new_with_flags(kind, label, 0))
    /\ UNCHANGED <<plot, borrowed, lastLimit, tokens, counts, build,
                   lastSet, begun, style>>

SetElementFlags ==
    /\ CanSetElem(ElementKinds \ {"PlotStems"})
    /\ \E flags \in {0, BarsFlags_HORIZONTAL} :
          ElemCall("flags", <<>>, element_flags(Elem, flags))
    /\ UNCHANGED <<plot, borrowed, lastLimit, tokens, counts, build,
                   lastSet, begun, style>>

SetBarWidth ==
    /\ CanSetElem({"PlotBars"})
    /\ ElemCall("with_bar_width", <<>>, PlotBars_with_bar_width(Elem, 50))
    /\ UNCHANGED <<plot, borrowed, lastLimit, tokens, counts, build,
                   lastSet, begun, style>>

SetPixelOffset ==
    /\ CanSetElem({"PlotText"})
    /\ ElemCall("with_pixel_offset", <<>>, PlotText_with_pixel_offset(Elem, 2, 3))
    /\ UNCHANGED <<plot, borrowed, lastLimit, tokens, counts, build,
                   lastSet, begun, style>>

SetScale ==
    /\ CanSetElem({"PlotHeatmap"})
    /\ ElemCall("with_scale", <<>>, PlotHeatmap_with_scale(Elem, 0, 9))
    /\ UNCHANGED <<plot, borrowed, lastLimit, tokens, counts, build,
                   lastSet, begun, style>>

SetLabelFormat(formats) ==
    /\ CanSetElem({"PlotHeatmap"})
    /\ \E label_format \in {None} \cup {Some(f) : f \in formats} :
          ElemCall("with_label_format", label_format,
                   PlotHeatmap_with_label_format(Elem, label_format))
    /\ UNCHANGED <<plot, borrowed, lastLimit, tokens, counts, build,
                   lastSet, begun, style>>

SetDrawingArea ==
    /\ CanSetElem({"PlotHeatmap"})
    /\ ElemCall("with_drawing_area", <<>>,
                PlotHeatmap_with_drawing_area(Elem, <<1, 1>>, <<4, 4>>))
    /\ UNCHANGED <<plot, borrowed, lastLimit, tokens, counts, build,
                   lastSet, begun, style>>

SetReferenceY ==
    /\ CanSetElem({"PlotStems"})
    /\ ElemCall("with_reference_y", <<>>, PlotStems_with_reference_y(Elem, 1))
    /\ UNCHANGED <<plot, borrowed, lastLimit, tokens, counts, build,
                   lastSet, begun, style>>

\* self.plot(..) of the element, by struct
element_plot(self, data) ==
    CASE self.kind = "PlotLine" -> PlotLine_plot(self, data, <<3, 1>>)
      [] self.kind = "PlotStairs" -> PlotStairs_plot(self, data, <<3, 1>>)
      [] self.kind = "PlotScatter" -> PlotScatter_plot(self, data, <<3, 1>>)
      [] self.kind = "PlotBars" -> PlotBars_plot(self, data, <<3, 1>>)
      [] self.kind = "PlotStems" -> PlotStems_plot(self, data, <<3, 1>>)
      [] self.kind = "PlotText" -> PlotText_plot(self, 1, 2)
      [] self.kind = "PlotHeatmap" -> PlotHeatmap_plot(self, data, 1, Len(data))

\* a call that takes no builder: the program's values stay as they are
FreeCall(op, axis, strs, r) ==
    /\ native' = r.calls
    /\ panic' = r.panic
    /\ lastCall' = Call(op, axis, strs)

PlotElement ==
    /\ panic = "none" /\ IsSome(elem)
    /\ \E data \in Slices : FreeCall("plot", None, <<>>, element_plot(Elem, data))
    /\ UNCHANGED <<plot, elem, ncalls, borrowed, lastLimit, tokens, counts, build,
                   lastSet, begun, style>>

IsLegendEntryHovered(entries) ==
    /\ panic = "none"
    /\ \E legend_entry \in entries :
          FreeCall("is_legend_entry_hovered", None, <<legend_entry>>,
                   is_legend_entry_hovered(legend_entry))
    /\ UNCHANGED <<plot, elem, ncalls, borrowed, lastLimit, tokens, counts, build,
                   lastSet, begun, style>>

IsPlotAxisHovered ==
    /\ panic = "none"
    /\ \E axis_choice \in {None, Some(Y2)} :
          FreeCall("is_plot_axis_hovered", axis_choice, <<>>,
                   is_plot_axis_hovered(axis_choice))
    /\ UNCHANGED <<plot, elem, ncalls, borrowed, lastLimit, tokens, counts, build,
                   lastSet, begun, style>>

\* the style stacks after the one native call a push or pop issued; id names
\* the token of the call
AfterStyleCall(call, id) ==
    [style EXCEPT
        !.colors = NativeStack(@, call, id, {"ImPlot_PushStyleColor_Vec4"},
                               "ImPlot_PopStyleColor"),
        !.vars = NativeStack(@, call, id, PushFns \ {"ImPlot_PushStyleColor_Vec4"},
                             "ImPlot_PopStyleVar")]

\* a style token user code holds: its kind, the token, whether it is still held
HeldStyle(kind, token) == [kind |-> kind, tok |-> token, live |-> TRUE]

\* a push by user code, which keeps the token
StylePush(op, kind, r) ==
    /\ panic = "none" /\ Len(style.tokens) < MaxPushes
    /\ FreeCall(op, None, <<>>, r)
    /\ style' = [AfterStyleCall(r.calls[1], Len(style.tokens) + 1) EXCEPT
                    !.tokens = Append(@, HeldStyle(kind, Unwrap(r.ret)))]
    /\ UNCHANGED <<plot, elem, ncalls, borrowed, lastLimit, tokens, counts, build,
                   lastSet, begun>>

PushStyleColor ==
    \E element \in {"Line", "Fill"} :
        StylePush("push_style_color", "color", push_style_color(element, 1, 1, 1, 0))

PushStyleVarF32 ==
    \E value \in {1, 11} :
        StylePush("push_style_var_f32", "var", push_style_var_f32("LineWeight", value))

PushStyleVarI32 ==
    StylePush("push_style_var_i32", "var", push_style_var_i32("Marker", 2))

PushStyleVarImVec2 ==
    StylePush("push_style_var_imvec2", "var",
              push_style_var_imvec2("PlotPadding", <<10, 10>>))

\* token.pop() on a token user code holds; pop takes the token by value
StylePop ==
    /\ panic = "none"
    /\ \E i \in {j \in 1..Len(style.tokens) : style.tokens[j].live} :
          LET t == style.tokens[i]
              r == IF t.kind = "color" THEN StyleColorToken_pop(t.tok)
                   ELSE StyleVarToken_pop(t.tok)
          IN
          /\ FreeCall(IF t.kind = "color" THEN "StyleColorToken::pop"
                      ELSE "StyleVarToken::pop", None, <<>>, r)
          /\ style' = IF r.panic # "none" THEN style
                      ELSE [AfterStyleCall(r.calls[1], i) EXCEPT
                               !.tokens[i] = [t EXCEPT !.tok = Unwrap(r.ret),
                                                       !.live = FALSE]]
    /\ UNCHANGED <<plot, elem, ncalls, borrowed, lastLimit, tokens, counts, build,
                   lastSet, begun>>

\* a style token goes out of scope without pop: there is no Drop for it
StyleTokenDrop ==
    /\ panic = "none"
    /\ \E i \in {j \in 1..Len(style.tokens) : style.tokens[j].live} :
          style' = [style EXCEPT !.tokens[i].live = FALSE]
    /\ native' = <<>>
    /\ lastCall' = Call("drop of a style token", None, <<>>)
    /\ UNCHANGED <<plot, elem, panic, ncalls, borrowed, lastLimit, tokens, counts,
                   build, lastSet, begun>>

SetColormapFromPreset ==
    /\ panic = "none"
    /\ \E preset \in {"Standard", "Jet"}, samples \in {0, 5} :
          /\ FreeCall("set_colormap_from_preset", None, <<>>,
                      set_colormap_from_preset(preset, samples))
          /\ style' = [style EXCEPT
                          !.colormap = Some([preset |-> preset, samples |-> samples])]
    /\ UNCHANGED <<plot, elem, ncalls, borrowed, lastLimit, tokens, counts, build,
                   lastSet, begun>>

SetColormapFromVec ==
    /\ panic = "none"
    /\ \E colors \in {<<>>, <<<<1, 0, 0, 1>>, <<0, 0, 1, 1>>>>} :
          /\ FreeCall("set_colormap_from_vec", None, <<>>, set_colormap_from_vec(colors))
          /\ style' = [style EXCEPT !.colormap = Some([colors |-> colors])]
    /\ UNCHANGED <<plot, elem, ncalls, borrowed, lastLimit, tokens, counts, build,
                   lastSet, begun>>

\* user code takes, or gives back, a borrow of one of the linked cells
UserBorrow ==
    /\ panic = "none" /\ borrowed = {}
    /\ \E rc \in Rcs : borrowed' = {rc}
    /\ UNCHANGED <<plot, elem, native, panic, lastCall, ncalls, lastLimit, tokens,
                   counts, build,
                   lastSet, begun, style>>

UserRelease ==
    /\ panic = "none" /\ borrowed # {}
    /\ borrowed' = {}
    /\ UNCHANGED <<plot, elem, native, panic, lastCall, ncalls, lastLimit, tokens,
                   counts, build,
                   lastSet, begun, style>>

-----------------------------------------------------------------------------
(* begin, end, drop and build *)

\* how many calls of the native function fn are among calls
CountFn(calls, fn) == Cardinality({k \in 1..Len(calls) : calls[k].fn = fn})

Begins == counts.begin_true + counts.begin_false

\* a token the program holds: the PlotToken, whether it is still held, whether
\* end() ran on it, whether its drop panicked, and whether it was dropped while
\* the thread was unwinding
Held(token) ==
    [tok |-> token, live |-> TRUE, ended |-> FALSE, drop_panicked |-> FALSE,
     dropped_unwinding |-> FALSE]

\* counts after a begin that got as far as BeginPlot
Counted(r, should_render) ==
    IF CountFn(r.calls, "ImPlot_BeginPlot") = 0 THEN counts
    ELSE IF should_render THEN [counts EXCEPT !.begin_true = @ + 1]
    ELSE [counts EXCEPT !.begin_false = @ + 1]

\* one begin call: the Plot value it was made on, what BeginPlot returned,
\* and the native calls it issued
Begun(self, should_render, r) ==
    [plot |-> self, should_render |-> should_render, calls |-> r.calls]

\* Plot::begin called by user code, which keeps the token it gets; observed
\* says whether the call is noted in begun
BeginCall(limit, observed) ==
    /\ panic = "none" /\ IsSome(plot) /\ Begins < limit
    /\ \E should_render \in BOOLEAN :
          LET r == Plot_begin(Self, PlotUi, should_render, borrowed) IN
          /\ FreeCall("Plot::begin", None, <<>>, r)
          /\ tokens' = IF IsSome(r.ret) THEN Append(tokens, Held(Unwrap(r.ret)))
                       ELSE tokens
          /\ counts' = Counted(r, should_render)
          /\ begun' = IF observed /\ r.panic = "none"
                      THEN Append(begun, Begun(Self, should_render, r))
                      ELSE begun
    /\ plot' = Some(Plot_after_begin(Self))
    /\ UNCHANGED <<elem, ncalls, borrowed, lastLimit, build, lastSet, style>>

Begin(limit) == BeginCall(limit, FALSE)
BeginObserved(limit) == BeginCall(limit, TRUE)

\* the tokens user code holds; the one of a running build belongs to build
UserTokens == {i \in 1..Len(tokens) : tokens[i].live /\ Some(i) # build.token}

\* token.end(): the body of end, then the drop of self at its closing brace
TokenEnd ==
    /\ panic = "none"
    /\ \E i \in UserTokens :
          LET r == PlotToken_end(tokens[i].tok)
              d == PlotToken_drop(Unwrap(r.ret), FALSE)
          IN  /\ tokens' = [tokens EXCEPT ![i] =
                              [tok |-> Unwrap(r.ret), live |-> FALSE, ended |-> TRUE,
                               drop_panicked |-> d, dropped_unwinding |-> FALSE]]
              /\ native' = r.calls
              /\ panic' = IF d THEN "unpaired_token" ELSE "none"
              /\ counts' = [counts EXCEPT
                              !.end_plot = @ + CountFn(r.calls, "ImPlot_EndPlot"),
                              !.end_calls = @ + 1]
              /\ build' = IF d /\ build.pc = "closure"
                          THEN [build EXCEPT !.pc = "unwinding"] ELSE build
    /\ lastCall' = Call("PlotToken::end", None, <<>>)
    /\ UNCHANGED <<plot, elem, ncalls, borrowed, lastLimit,
                   lastSet, begun, style>>

\* a token goes out of scope without end(): at the end of the user's scope, or,
\* once a panic unwinds the thread, together with everything else on the stack
TokenDrop ==
    /\ \E i \in 1..Len(tokens) :
          /\ tokens[i].live
          /\ panic = "none" => i \in UserTokens
          /\ LET d == PlotToken_drop(tokens[i].tok, panic # "none") IN
             /\ tokens' = [tokens EXCEPT ![i] =
                             [tok |-> tokens[i].tok, live |-> FALSE, ended |-> FALSE,
                              drop_panicked |-> d,
                              dropped_unwinding |-> panic # "none"]]
             /\ panic' = IF d THEN "unpaired_token" ELSE panic
             /\ build' = IF (d \/ panic # "none") /\ build.pc = "closure"
                         THEN [build EXCEPT !.pc = "unwinding"] ELSE build
    /\ native' = <<>>
    /\ lastCall' = Call("drop", None, <<>>)
    /\ UNCHANGED <<plot, elem, ncalls, borrowed, lastLimit, counts,
                   lastSet, begun, style>>

\* user code panics for a reason of its own; inside the closure of a build the
\* panic unwinds through build
UserPanic ==
    /\ panic = "none"
    /\ panic' = "user"
    /\ build' = IF build.pc = "closure" THEN [build EXCEPT !.pc = "unwinding"] ELSE build
    /\ native' = <<>>
    /\ lastCall' = Call("panic", None, <<>>)
    /\ UNCHANGED <<plot, elem, ncalls, borrowed, lastLimit, tokens, counts,
                   lastSet, begun, style>>

\* Plot::build up to the call of the closure: begin, and f() when a token came
\* back.  build takes the Plot by value.
BuildBegin(limit) ==
    /\ panic = "none" /\ IsSome(plot) /\ Begins < limit
    /\ build.pc \in {"idle", "done"}
    /\ \E should_render \in BOOLEAN :
          LET r == Plot_begin(Self, PlotUi, should_render, borrowed)
              run == r.panic = "none" /\ build_calls_closure(r.ret)
          IN
          /\ FreeCall("Plot::build", None, <<>>, r)
          /\ tokens' = IF IsSome(r.ret) THEN Append(tokens, Held(Unwrap(r.ret)))
                       ELSE tokens
          /\ counts' = Counted(r, should_render)
          /\ build' = [pc |-> IF r.panic # "none" THEN "unwinding"
                              ELSE IF run THEN "closure" ELSE "done",
                       token |-> IF IsSome(r.ret) THEN Some(Len(tokens) + 1) ELSE None,
                       should_render |->
                           IF CountFn(r.calls, "ImPlot_BeginPlot") = 0 THEN None
                           ELSE Some(should_render),
                       closure_calls |-> IF run THEN 1 ELSE 0,
                       closure_returns |-> 0,
                       end_plots |-> 0]
    /\ plot' = None
    /\ begun' = <<>>
    /\ UNCHANGED <<elem, ncalls, borrowed, lastLimit, lastSet, style>>

\* the closure returns to build
ClosureReturn ==
    /\ panic = "none" /\ build.pc = "closure"
    /\ build' = [build EXCEPT !.pc = "end", !.closure_returns = @ + 1]
    /\ native' = <<>>
    /\ lastCall' = Call("closure returns", None, <<>>)
    /\ UNCHANGED <<plot, elem, panic, ncalls, borrowed, lastLimit, tokens, counts,
                   lastSet, begun, style>>

\* build calls token.end() and returns
BuildEnd ==
    /\ panic = "none" /\ build.pc = "end"
    /\ IF IsSome(build.token)
       THEN LET i == Unwrap(build.token)
                r == PlotToken_end(tokens[i].tok)
                d == PlotToken_drop(Unwrap(r.ret), FALSE)
            IN  /\ tokens' = [tokens EXCEPT ![i] =
                                [tok |-> Unwrap(r.ret), live |-> FALSE, ended |-> TRUE,
                                 drop_panicked |-> d, dropped_unwinding |-> FALSE]]
                /\ native' = r.calls
                /\ panic' = IF d THEN "unpaired_token" ELSE "none"
                /\ counts' = [counts EXCEPT
                                !.end_plot = @ + CountFn(r.calls, "ImPlot_EndPlot"),
                                !.end_calls = @ + 1]
                /\ build' = [build EXCEPT
                               !.pc = IF d THEN "unwinding" ELSE "done",
                               !.end_plots = @ + CountFn(r.calls, "ImPlot_EndPlot")]
       ELSE /\ build' = [build EXCEPT !.pc = "done"]
            /\ native' = <<>>
            /\ UNCHANGED <<tokens, panic, counts>>
    /\ lastCall' = Call("Plot::build returns", None, <<>>)
    /\ UNCHANGED <<plot, elem, ncalls, borrowed, lastLimit,
                   lastSet, begun, style>>

-----------------------------------------------------------------------------
(* Specifications *)

\* begin, end and drop of tokens, and build, on plots left as constructed
Next ==
    \/ NewPlot({<<65>>})
    \/ Begin(MaxBegins)
    \/ TokenEnd
    \/ TokenDrop
    \/ UserPanic
    \/ BuildBegin(MaxBegins)
    \/ ClosureReturn
    \/ BuildEnd

Spec == Init /\ [][Next]_vars

\* every builder call once on a fresh builder, and what is then handed over
NextBuilder ==
    \/ NewPlot(Strings)
    \/ SetSize
    \/ SetXLabel(Strings)
    \/ SetYLabel(Strings)
    \/ SetXLimits({[Min |-> 0, Max |-> 1]}, {"Always"})
    \/ SetYLimits({[Min |-> 0, Max |-> 1]}, {"Always"})
    \/ SetLinkedXLimits({"rcA"})
    \/ SetLinkedYLimits({"rcA"})
    \/ SetXTicks
    \/ SetYTicks
    \/ SetXTicksWithLabels
    \/ SetYTicksWithLabels
    \/ SetPlotFlags({1})
    \/ SetXAxisFlags({1})
    \/ SetYAxisFlags({1})
    \/ SetLegendLocation
    \/ NewElement(Strings)
    \/ SetElementFlags
    \/ SetBarWidth
    \/ SetPixelOffset
    \/ SetScale
    \/ SetLabelFormat(Strings)
    \/ SetDrawingArea
    \/ SetReferenceY
    \/ PlotElement
    \/ IsLegendEntryHovered(ShortStrings)
    \/ IsPlotAxisHovered
    \/ Begin(1)

SpecBuilder == Init /\ [][NextBuilder]_vars

\* the limit setters on a constructed Plot, with cells that user code borrows
InitLimits ==
    /\ plot = Plot_new(<<65>>).ret
    /\ elem = None
    /\ native = <<>>
    /\ panic = "none"
    /\ lastCall = Call("Plot::new", None, <<<<65>>>>)
    /\ ncalls = 0
    /\ borrowed = {}
    /\ lastLimit = [a \in Axis |-> None]
    /\ tokens = <<>>
    /\ counts = [begin_true |-> 0, begin_false |-> 0, end_plot |-> 0, end_calls |-> 0]
    /\ build = NoBuild
    /\ lastSet = NothingSet
    /\ begun = <<>>
    /\ style = NoStyle

NextLimits ==
    \/ SetXLimits(Ranges, Conditions)
    \/ SetYLimits(Ranges, Conditions)
    \/ SetLinkedXLimits(Rcs)
    \/ SetLinkedYLimits(Rcs)
    \/ UserBorrow
    \/ UserRelease
    \/ Begin(1)

SpecLimits == InitLimits /\ [][NextLimits]_vars


\* the per-axis flag and tick setters and the plot flags on a constructed
\* Plot, which is then begun
NextAxes ==
    \/ SetXAxisFlags({1})
    \/ SetYAxisFlags({1})
    \/ SetXTicks
    \/ SetYTicks
    \/ SetXTicksWithLabels
    \/ SetYTicksWithLabels
    \/ SetPlotFlags({PlotFlags_EQUAL, PlotFlags_CROSSHAIRS})
    \/ BeginObserved(1)

SpecAxes == InitLimits /\ [][NextAxes]_vars

\* a configured Plot that is begun, ended and begun again, with other wrapper
\* calls in between
NextRebegin ==
    \/ SetXTicks
    \/ SetYAxisFlags({1})
    \/ SetXLimits({[Min |-> 0, Max |-> 1]}, {"Once"})
    \/ SetLinkedYLimits({"rcA"})
    \/ SetLegendLocation
    \/ IsPlotAxisHovered
    \/ BeginObserved(2)
    \/ TokenEnd

SpecRebegin == InitLimits /\ [][NextRebegin]_vars

\* style pushes and pops in any order, and the colormap calls
NextStyle ==
    \/ PushStyleColor
    \/ PushStyleVarF32
    \/ PushStyleVarI32
    \/ PushStyleVarImVec2
    \/ StylePop
    \/ StyleTokenDrop
    \/ SetColormapFromPreset
    \/ SetColormapFromVec

SpecStyle == Init /\ [][NextStyle]_vars

-----------------------------------------------------------------------------
(* Claims *)

Ended == {i \in 1..Len(tokens) : tokens[i].ended}

\* C1: a token that begin returned and that is dropped without end() having
\* been called on it, while the thread is not unwinding from another panic,
\* makes the program panic.
C1_UnmatchedBeginPanics ==
    \A i \in 1..Len(tokens) :
        (~tokens[i].live /\ ~tokens[i].ended /\ ~tokens[i].dropped_unwinding)
            => (tokens[i].drop_panicked /\ panic = "unpaired_token")

C1_Witness ==
    \E i \in 1..Len(tokens) :
        /\ ~tokens[i].live /\ ~tokens[i].ended /\ ~tokens[i].dropped_unwinding
        /\ tokens[i].drop_panicked
        /\ counts.begin_true >= 2

\* C2: end() issues EndPlot exactly once for its token, an ended token is gone
\* (it cannot be ended again) and its drop does not panic; the EndPlot calls
\* are as many as the tokens end() was called on, and never more than the
\* BeginPlot calls that returned true.
C2_BeginMatchedByOneEnd ==
    /\ \A i \in Ended :
          /\ ~tokens[i].live
          /\ ~tokens[i].drop_panicked
          /\ tokens[i].tok.context = NullContext
    /\ counts.end_calls = Cardinality(Ended)
    /\ counts.end_plot = counts.end_calls
    /\ counts.end_plot <= counts.begin_true
    /\ lastCall.op = "PlotToken::end" => CountFn(native, "ImPlot_EndPlot") = 1

C2_Witness ==
    /\ lastCall.op = "PlotToken::end"
    /\ counts.end_plot = 2
    /\ counts.begin_true = 3
    /\ panic = "none"

\* C3: build calls the closure exactly once if and only if BeginPlot returned
\* true; then EndPlot is issued exactly once, and only after the closure has
\* returned; when BeginPlot returned false neither the closure nor EndPlot is
\* invoked and there is no token.
C3_BuildRunsClosureIffBegun ==
    /\ build.closure_calls <= 1
    /\ build.closure_calls = 1 <=> build.should_render = Some(TRUE)
    /\ build.end_plots <= build.closure_returns
    /\ build.pc = "done" =>
          /\ build.should_render = Some(TRUE) =>
                build.closure_returns = 1 /\ build.end_plots = 1
          /\ build.should_render = Some(FALSE) =>
                build.closure_calls = 0 /\ build.end_plots = 0 /\ build.token = None

C3_Witness ==
    /\ build.pc = "done"
    /\ build.should_render = Some(TRUE)
    /\ build.end_plots = 1
    /\ lastCall.op = "Plot::build returns"

-----------------------------------------------------------------------------
(* Claims about the builders, under SpecBuilder *)

HasNulString(strs) == \E k \in 1..Len(strs) : HasNul(strs[k])

\* C4: the wrapper panics on no other condition than a string with an
\* embedded null byte or an unpaired begin/end.
C4_OnlyNullByteAndPairingPanics ==
    panic \in {"none", "null_byte", "unpaired_token"}

\* the constructors and setters that convert a label to a C string
LabelOps == {"Plot::new", "x_label", "y_label", "new_with_flags", "with_label_format"}

\* C5: a title, axis label, element label or format string with an embedded
\* null byte makes the constructor or setter panic: no builder value is
\* produced and no native call is made with the string.  A builder that
\* exists holds strings without an interior null byte only.
C5_NulAbortsConstruction ==
    /\ (lastCall.op \in LabelOps /\ HasNulString(lastCall.strs)) =>
          /\ panic = "null_byte"
          /\ native = <<>>
          /\ lastCall.op \in {"Plot::new", "x_label", "y_label"} => plot = None
          /\ lastCall.op \in {"new_with_flags", "with_label_format"} => elem = None
    /\ (lastCall.op \in LabelOps /\ ~HasNulString(lastCall.strs)) => panic = "none"
    /\ IsSome(plot) =>
          /\ ~HasNul(as_bytes(Self.title))
          /\ ~HasNul(as_bytes(Self.x_label))
          /\ ~HasNul(as_bytes(Self.y_label))
    /\ IsSome(elem) =>
          /\ ~HasNul(as_bytes(Elem.label))
          /\ ("label_format" \in DOMAIN Elem /\ IsSome(Elem.label_format)) =>
                ~HasNul(as_bytes(Unwrap(Elem.label_format)))

C5_Witness ==
    /\ lastCall.op = "with_label_format"
    /\ HasNulString(lastCall.strs)
    /\ panic = "null_byte"
    /\ elem = None
    /\ native = <<>>

TickLabelOps == {"x_ticks_with_labels", "y_ticks_with_labels"}
OwnKind(call) ==
    \/ call.op \in {"x_limits", "linked_x_limits", "x_ticks", "x_ticks_with_labels",
                    "with_x_axis_flags"} /\ Unwrap(call.axis) \in XAxes
    \/ call.op \in {"y_limits", "linked_y_limits", "y_ticks", "y_ticks_with_labels",
                    "with_y_axis_flags"} /\ Unwrap(call.axis) \in YAxes

StringArgs(call) ==
    {call[f] : f \in DOMAIN call \cap {"title_id", "label", "label_id", "text", "label_fmt"}}
        \cup (IF "labels" \in DOMAIN call
              THEN {call.labels.ptrs[j] : j \in 1..Len(call.labels.ptrs)}
              ELSE {})

Terminated(p) == p.null \/ (p.bytes # <<>> /\ p.bytes[Len(p.bytes)] = 0)

\* C7: every string handed to the native library is a null-terminated C
\* string.
C7_NativeStringsTerminated ==
    \A k \in 1..Len(native) : \A p \in StringArgs(native[k]) : Terminated(p)

\* the builder constructors and setters
BuilderOps ==
    {"Plot::new", "size", "x_label", "y_label", "x_limits", "y_limits",
     "linked_x_limits", "linked_y_limits", "x_ticks", "y_ticks",
     "x_ticks_with_labels", "y_ticks_with_labels", "with_plot_flags",
     "with_x_axis_flags", "with_y_axis_flags", "with_legend_location",
     "new_with_flags", "flags", "with_bar_width", "with_pixel_offset", "with_scale",
     "with_label_format", "with_drawing_area", "with_reference_y"}

PlotFns ==
    {"ImPlot_SetNextAxisLimits", "ImPlot_SetNextAxisLinks",
     "ImPlot_SetupAxisTicks_doublePtr", "ImPlot_BeginPlot", "ImPlot_SetupAxis",
     "ImPlot_SetupLegend", "ImPlot_EndPlot"}

ElementFns ==
    {"ImPlot_PlotLine_doublePtrdoublePtr", "ImPlot_PlotStairs_doublePtrdoublePtr",
     "ImPlot_PlotScatter_doublePtrdoublePtr", "ImPlot_PlotBars_doublePtrdoublePtr",
     "ImPlot_PlotStems_doublePtrdoublePtr", "ImPlot_PlotText",
     "ImPlot_PlotHeatmap_doublePtr"}

\* C8: the builder constructors and setters issue no native call; the native
\* calls of a plot come from begin/build and end only, those of a plot element
\* from its plot() method only.
C8_BuildersIssueNoNativeCall ==
    /\ lastCall.op \in BuilderOps => native = <<>>
    /\ \A k \in 1..Len(native) :
          /\ native[k].fn \in PlotFns =>
                lastCall.op \in {"Plot::begin", "Plot::build", "PlotToken::end",
                                 "Plot::build returns"}
          /\ native[k].fn \in ElementFns => lastCall.op = "plot"

C8_Witness ==
    /\ lastCall.op = "with_legend_location"
    /\ IsSome(plot)
    /\ Self.legend_configuration # None
    /\ native = <<>>
    /\ panic = "none"

AxisOps ==
    {"x_limits", "linked_x_limits", "x_ticks", "x_ticks_with_labels", "with_x_axis_flags",
     "y_limits", "linked_y_limits", "y_ticks", "y_ticks_with_labels", "with_y_axis_flags"}

\* C10: an X-axis setter called with a Y axis, or a Y-axis setter called with
\* an X axis, returns the Plot with every field unchanged and does not panic.
C10_WrongKindAxisIsNoOp ==
    [][(/\ ncalls' = ncalls + 1
        /\ lastCall'.op \in AxisOps
        /\ ~OwnKind(lastCall'))
          => (plot' = plot /\ IsSome(plot') /\ panic' = "none" /\ native' = <<>>)]_vars

C10_Witness ==
    /\ lastCall.op = "linked_x_limits"
    /\ lastCall.axis = Some(Y3)
    /\ IsSome(plot)
    /\ Self.x_limits = [k \in XIdx |-> None]
    /\ Self.y_limits = [k \in YIdx |-> None]
    /\ panic = "none"

-----------------------------------------------------------------------------
(* Claims about the axis limits, under SpecLimits *)

DirectCallsFor(axis) ==
    {k \in 1..Len(native) :
        native[k].fn = "ImPlot_SetNextAxisLimits" /\ native[k].axis = axis}

LinkCallsFor(axis) ==
    {k \in 1..Len(native) :
        /\ native[k].fn = "ImPlot_SetNextAxisLinks" /\ native[k].axis = axis
        /\ ~native[k].link_min.null}

\* C9: for each axis the limit set last wins.  When begin returns, an axis
\* whose last limit call was a direct one gets exactly one SetNextAxisLimits
\* with that range and condition and no link to a shared range; an axis whose
\* last limit call was a linked one gets no SetNextAxisLimits and one
\* SetNextAxisLinks with pointers to the minimum and maximum of that shared
\* range.
C9_LastLimitCallWins ==
    (lastCall.op = "Plot::begin" /\ panic = "none") =>
        \A axis \in Axis :
            /\ IsSingle(lastLimit[axis]) =>
                  /\ LinkCallsFor(axis) = {}
                  /\ \E k \in DirectCallsFor(axis) :
                        /\ DirectCallsFor(axis) = {k}
                        /\ native[k] = SetNextAxisLimits(axis, Unwrap(lastLimit[axis]))
            /\ IsLinked(lastLimit[axis]) =>
                  /\ DirectCallsFor(axis) = {}
                  /\ \E k \in LinkCallsFor(axis) :
                        /\ LinkCallsFor(axis) = {k}
                        /\ native[k].link_min = RangePtr(Unwrap(lastLimit[axis]).rc, "Min")
                        /\ native[k].link_max = RangePtr(Unwrap(lastLimit[axis]).rc, "Max")
            /\ lastLimit[axis] = None =>
                  DirectCallsFor(axis) = {} /\ LinkCallsFor(axis) = {}

C9_Witness ==
    /\ lastCall.op = "Plot::begin"
    /\ panic = "none"
    /\ ncalls = MaxCalls
    /\ IsLinked(lastLimit[X2])
    /\ \A axis \in Axis \ {X2} : lastLimit[axis] = None
    /\ LinkCallsFor(X2) # {}

-----------------------------------------------------------------------------
(* Claims about what begin hands over for the axes, under SpecAxes *)

\* the last wrapper call was a begin that returned after BeginPlot gave true
BeginRendered ==
    /\ lastCall.op = "Plot::begin"
    /\ panic = "none"
    /\ begun # <<>>
    /\ begun[Len(begun)].should_render

BeginReturned == lastCall.op = "Plot::begin" /\ panic = "none"

\* C11: for every axis, when begin renders the plot, the flags last set for
\* that axis with with_x_axis_flags / with_y_axis_flags are passed to the
\* native library in a SetupAxis call for that axis.
C11_AxisFlagsReachSetupAxis ==
    BeginRendered =>
        \A axis \in Axis :
            IsSome(lastSet.flags[axis]) =>
                \E k \in 1..Len(native) :
                    /\ native[k].fn = "ImPlot_SetupAxis"
                    /\ native[k].axis = axis
                    /\ native[k].flags = Unwrap(lastSet.flags[axis])

\* the last tick setter that named the axis was x_ticks / y_ticks, and gave
\* some positions
PlainTicksLast(axis) ==
    /\ IsSome(lastSet.ticks[axis])
    /\ ~Unwrap(lastSet.ticks[axis]).labelled
    /\ Unwrap(lastSet.ticks[axis]).positions # <<>>

\* C12: when x_ticks / y_ticks is the last tick setter called for an axis,
\* whatever tick setters were called before it, begin passes for that axis
\* the given positions, their count, the given show_default, and a null
\* labels pointer.
C12_PlainTicksPassNullLabels ==
    BeginReturned =>
        \A axis \in Axis :
            PlainTicksLast(axis) =>
                \E k \in 1..Len(native) :
                    /\ native[k].fn = "ImPlot_SetupAxisTicks_doublePtr"
                    /\ native[k].axis = axis
                    /\ native[k].values = Unwrap(lastSet.ticks[axis]).positions
                    /\ native[k].n_ticks = Len(Unwrap(lastSet.ticks[axis]).positions)
                    /\ native[k].keep_default = Unwrap(lastSet.ticks[axis]).show_default
                    /\ native[k].labels.null

-----------------------------------------------------------------------------
(* Claims about the colormap and the style stacks, under SpecStyle *)

\* C13: set_colormap_from_preset(preset, samples) and set_colormap_from_vec(colors)
\* each issue the corresponding native colormap call, carrying their
\* arguments.
C13_ColormapCallsIssued ==
    /\ lastCall.op = "set_colormap_from_preset" =>
          \E k \in 1..Len(native) :
              /\ native[k].fn = "ImPlot_SetColormapPlotColormap"
              /\ native[k].colormap = Unwrap(style.colormap).preset
              /\ native[k].samples = Unwrap(style.colormap).samples
    /\ lastCall.op = "set_colormap_from_vec" =>
          \E k \in 1..Len(native) :
              /\ native[k].fn = "ImPlot_SetColormapVec4Ptr"
              /\ native[k].colors = Unwrap(style.colormap).colors
              /\ native[k].num_colors = Len(Unwrap(style.colormap).colors)

\* the native stack a style token pushed to
StackOf(token) == IF token.kind = "color" THEN style.colors ELSE style.vars

OnStack(i) == \E k \in 1..Len(StackOf(style.tokens[i])) : StackOf(style.tokens[i])[k].id = i

\* C14: for any interleaving of pushes and pops of several tokens, pop() on a
\* token removes from the native style stack the entry that this token's push
\* added, and leaves the entries of the tokens not popped in place.
C14_PopRemovesOwnEntry ==
    \A i \in 1..Len(style.tokens) : style.tokens[i].tok.was_popped <=> ~OnStack(i)

-----------------------------------------------------------------------------
(* Claims about the plot flags (under SpecAxes) and about begin called     *)
(* again (under SpecRebegin)                                               *)

\* C15: PlotFlags::CROSSHAIRS is distinct from PlotFlags::EQUAL: a Plot built
\* with only CROSSHAIRS passes to BeginPlot the native crosshairs bit and not
\* the native equal bit, and a Plot built with only EQUAL does not report
\* CROSSHAIRS as contained.
C15_CrosshairsIsNotEqual ==
    /\ (BeginReturned /\ lastSet.plot_flags = Some(PlotFlags_CROSSHAIRS)) =>
          \E k \in 1..Len(native) :
              /\ native[k].fn = "ImPlot_BeginPlot"
              /\ contains(native[k].flags, ImPlotFlags_Crosshairs)
              /\ ~contains(native[k].flags, ImPlotFlags_Equal)
    /\ (IsSome(plot) /\ lastSet.plot_flags = Some(PlotFlags_EQUAL)) =>
          ~contains(Self.plot_flags, PlotFlags_CROSSHAIRS)

====
